---------------------------- MODULE Spec2Model ----------------------------
(***************************************************************************)
(* Budgetly: the budget store (app/_layout.tsx), the Budget screen with    *)
(* reconcile / delete / move, and the Transactions screen with its ledger, *)
(* modelled as one state machine over the browser's localStorage.          *)
(*                                                                         *)
(* React is modelled at the level the code relies on:                      *)
(*  - a state setter called with an updater function (setTxns(prev => ..)) *)
(*    puts the updater in the component's update queue; React runs it      *)
(*    either at once (when the queue is empty it may compute the state     *)
(*    eagerly) or during the next render.  Both happen in practice, so the *)
(*    handler takes the choice as an input (eager).                        *)
(*  - window.dispatchEvent runs the listeners synchronously, inside the    *)
(*    dispatching handler.                                                 *)
(*  - effects run after the render that changed their dependencies, in     *)
(*    the order they are declared.                                         *)
(*  - setTimeout callbacks keep the closure they were created with.        *)
(***************************************************************************)
EXTENDS Integers, Sequences, FiniteSets, TLC

(***************************************************************************)
(* Bounds of the model and constants of the program                        *)
(***************************************************************************)
\* the ledger capacity: [t, ...prev].slice(0, 50)
Cap == 50
\* user mutations explored per behaviour: of any kind, and of the ledger
MaxOps == 2
MaxLedgerOps == 3
\* ledger mutations explored per behaviour where liveness is checked
MaxLiveOps == 2
\* transactions already stored when a returning user opens the app
StoredTxns == 2
\* Date.now() takes the values 1..MaxClock
MaxClock == 2
\* pending reconcile timers (setTimeout(reconcileFromStorage, 50))
MaxTimers == 1
\* how many of the newest rows of the list the user long-presses
RemovePick == 2

\* Number(text): a number, or NaN for a text that is not one
NaN == [nan |-> TRUE, val |-> 0]
Num(n) == [nan |-> FALSE, val |-> n]
isNaN(x) == x.nan
\* null where a number is expected: it counts as 0 in arithmetic
Null == [nan |-> FALSE, val |-> 0, null |-> TRUE]
isNull(x) == "null" \in DOMAIN x

\* a + b, a - b and Math.max(a, b) of numbers: NaN if either is
plus(a, b) == IF isNaN(a) \/ isNaN(b) THEN NaN ELSE Num(a.val + b.val)
minus(a, b) == IF isNaN(a) \/ isNaN(b) THEN NaN ELSE Num(a.val - b.val)
MathMax(a, b) ==
    IF isNaN(a) \/ isNaN(b) THEN NaN ELSE Num(IF a.val > b.val THEN a.val ELSE b.val)
\* x || 0 of a number: 0 for NaN, null and 0
orZero(x) == IF isNaN(x) THEN 0 ELSE x.val

\* Number(amount) of the texts typed into the Amount field
AmountInputs == {Num(0), Num(2), Num(-1), NaN}
\* Number(editingValue) of the texts saved from the Planned field of a row
PlannedInputs == {Num(5), Num(-3), NaN}
\* merchant field after trim() || undefined ("" stands for undefined)
MerchantInputs == {"Costco"}

\* a text typed into a field: its words and the blanks around and between them
Blank == " "
NoText == <<>>
\* texts typed into the Name field of the add-category form
NameInputs == {<<"Rent">>, <<Blank, "Rent", Blank>>, <<Blank>>, NoText}
\* texts typed into its Group field
GroupInputs == {NoText, <<"Housing", Blank>>}

\* what is typed into the fields of the onboarding form: nothing, a whole
\* amount, or groups of digits with a separator between them ("1,500")
IncomePrimaryInputs == {NoText, <<150>>, <<5000>>, <<1, 500>>}
IncomeOtherInputs == {NoText, <<100>>}
RentInputs == {NoText, <<1500>>, <<-100>>}
MortgageInputs == {NoText, <<700>>}
UtilitiesInputs == {NoText, <<200>>}

Month == "2025-09"
Today == "today"

None == <<>>
Some(x) == <<x>>

Min(a, b) == IF a < b THEN a ELSE b
Max(a, b) == IF a > b THEN a ELSE b
Range(s) == {s[i] : i \in DOMAIN s}
Take(s, n) == SubSeq(s, 1, Min(n, Len(s)))

\* String.prototype.trim: the text without the blanks at its two ends
RECURSIVE trimStart(_)
trimStart(s) == IF s # <<>> /\ Head(s) = Blank THEN trimStart(Tail(s)) ELSE s

RECURSIVE trimEnd(_)
trimEnd(s) ==
    IF s # <<>> /\ s[Len(s)] = Blank THEN trimEnd(SubSeq(s, 1, Len(s) - 1)) ELSE s

trim(s) == trimEnd(trimStart(s))

(***************************************************************************)
(* Domain values                                                           *)
(***************************************************************************)
\* "" as a category id (the initial catId / moveId / moveTargetId)
NoCat == <<"", 0>>

Category(id, name, type, group, planned, spent) ==
    [id |-> id, name |-> name, type |-> type, group |-> group,
     planned |-> planned, spent |-> spent]

Txn(id, amount, merchant, categoryId, notes) ==
    [id |-> id, date |-> Today, amount |-> amount, merchant |-> merchant,
     categoryId |-> categoryId, notes |-> notes]

OnboardingNames ==
    <<"Housing", "Utilities", "Groceries", "Transport", "Health",
      "Insurance", "Lifestyle", "Personal", "Savings/Goals">>

\* diyBudget: the nine categories, id `c${i}`, planned 0, spent 0
diyBudget ==
    [month |-> Month,
     categories |-> [i \in 1..Len(OnboardingNames) |->
        Category(<<"c", i - 1>>, <<OnboardingNames[i]>>, "none", NoText, Num(0), 0)]]

(***************************************************************************)
(* Numbers of the onboarding form.  The allocator computes with IEEE 754   *)
(* doubles: a value is m * 2^(-s), with m a natural number held as         *)
(* limbs of LimbBits bits, least significant first, no leading zero limb.  *)
(***************************************************************************)
LimbBits == 12
Limb == 2 ^ LimbBits
\* the significand of a double has 53 bits
Precision == 53

RECURSIVE norm(_)
norm(a) == IF a # <<>> /\ a[Len(a)] = 0 THEN norm(SubSeq(a, 1, Len(a) - 1)) ELSE a

RECURSIVE fromInt(_)
fromInt(n) == IF n = 0 THEN <<>> ELSE <<n % Limb>> \o fromInt(n \div Limb)

RECURSIVE toInt(_)
toInt(a) == IF a = <<>> THEN 0 ELSE a[1] + Limb * toInt(Tail(a))

RECURSIVE addBig(_, _, _)
addBig(a, b, carry) ==
    IF a = <<>> /\ b = <<>>
    THEN IF carry = 0 THEN <<>> ELSE <<carry>>
    ELSE LET x == (IF a = <<>> THEN 0 ELSE a[1]) + (IF b = <<>> THEN 0 ELSE b[1]) + carry
         IN  <<x % Limb>> \o addBig(IF a = <<>> THEN a ELSE Tail(a),
                                    IF b = <<>> THEN b ELSE Tail(b), x \div Limb)

RECURSIVE mulLimb(_, _, _)
mulLimb(a, d, carry) ==
    IF a = <<>>
    THEN IF carry = 0 THEN <<>> ELSE <<carry>>
    ELSE LET x == a[1] * d + carry
         IN  <<x % Limb>> \o mulLimb(Tail(a), d, x \div Limb)

RECURSIVE mulBig(_, _)
mulBig(a, b) ==
    IF a = <<>> \/ b = <<>>
    THEN <<>>
    ELSE norm(addBig(mulLimb(a, b[1], 0), <<0>> \o mulBig(a, Tail(b)), 0))

RECURSIVE bitLenLimb(_)
bitLenLimb(d) == IF d = 0 THEN 0 ELSE 1 + bitLenLimb(d \div 2)

bitLen(a) ==
    IF a = <<>> THEN 0 ELSE LimbBits * (Len(a) - 1) + bitLenLimb(a[Len(a)])

bit(a, i) ==
    LET k == i \div LimbBits + 1
    IN  IF k > Len(a) THEN 0 ELSE (a[k] \div 2 ^ (i % LimbBits)) % 2

\* floor(a / 2^k)
shr(a, k) ==
    LET q == k \div LimbBits
        r == k % LimbBits
        d == SubSeq(a, q + 1, Len(a))
    IN  norm([i \in 1..Len(d) |->
                (d[i] \div 2 ^ r)
                + (IF i < Len(d) THEN (d[i + 1] % 2 ^ r) * 2 ^ (LimbBits - r) ELSE 0)])

\* 2^k
pow2(k) ==
    [i \in 1..(k \div LimbBits + 1) |->
        IF i = k \div LimbBits + 1 THEN 2 ^ (k % LimbBits) ELSE 0]

Double(m, s) == [m |-> m, s |-> s]

\* an integer of the form, as a double (exact below 2^53)
ofInt(n) == Double(fromInt(n), 0)

\* the result of an operation, rounded to the nearest double, ties to even
roundToDouble(m, s) ==
    LET len == bitLen(m)
        k == len - Precision
        q == shr(m, k)
        up == /\ bit(m, k - 1) = 1
              /\ \/ \E i \in 0..(k - 2) : bit(m, i) = 1
                 \/ bit(q, 0) = 1
    IN  IF len <= Precision
        THEN Double(m, s)
        ELSE Double(IF up THEN addBig(q, <<1>>, 0) ELSE q, s - k)

\* x * y of two doubles
times(x, y) == roundToDouble(mulBig(x.m, y.m), x.s + y.s)

\* Math.round: the integer nearest to x, a tie going up: floor(x + 1/2)
MathRound(x) == toInt(shr(addBig(addBig(x.m, x.m, 0), pow2(x.s), 0), x.s + 1))

\* the literals of sampleBudget, as the doubles they denote
\* 0.5 = 0x1p-1, 0.25 = 0x1p-2
Half == Double(<<1>>, 1)
Quarter == Double(<<1>>, 2)
\* 0.3 = 0x13333333333333 * 2^-54
D030 == Double(<<819, 819, 819, 819, 19>>, 54)
\* 0.2 = 0xCCCCCCCCCCCCD * 2^-54
D020 == Double(<<3277, 3276, 3276, 3276, 12>>, 54)
\* 0.55 = 0x8CCCCCCCCCCCD * 2^-52
D055 == Double(<<3277, 3276, 3276, 3276, 8>>, 52)
\* 0.12 = 0x3D70A3D70A3D7 * 2^-53
D012 == Double(<<983, 1802, 2621, 3440, 3>>, 53)
\* 0.08 = 0x147AE147AE147B * 2^-56
D008 == Double(<<1147, 2785, 327, 1966, 20>>, 56)
\* 0.7 = 0xB333333333333 * 2^-52
D070 == Double(<<819, 819, 819, 819, 11>>, 52)

\* Number(text || 0): "" gives 0, a whole amount its value, any other text NaN
NumberOr0(text) ==
    IF text = NoText THEN Num(0)
    ELSE IF Len(text) = 1 THEN Num(text[1])
    ELSE NaN

\* sampleBudget: fixed costs first, then 50/30/20 of what income leaves; a
\* NaN among the inputs goes through every sum, product and Math.round
samplePlanned(incomePrimary, incomeOther, rent, mortgage, utilities) ==
    LET ip == NumberOr0(incomePrimary)
        io == NumberOr0(incomeOther)
        r == NumberOr0(rent)
        m == NumberOr0(mortgage)
        u == NumberOr0(utilities)
        income == plus(ip, io)
        fixed == plus(plus(r, m), u)
        remainder == MathMax(minus(income, fixed), Num(0))
        needs == times(ofInt(remainder.val), Half)
        wants == times(ofInt(remainder.val), D030)
        savings == times(ofInt(remainder.val), D020)
        round(x) == IF isNaN(remainder) THEN NaN ELSE Num(MathRound(x))
    IN  <<plus(r, m),
          u,
          round(times(needs, D055)),
          round(times(needs, Quarter)),
          round(times(needs, D012)),
          round(times(needs, D008)),
          round(times(wants, D070)),
          round(times(wants, D030)),
          round(savings)>>

sampleBudget(incomePrimary, incomeOther, rent, mortgage, utilities) ==
    LET planned == samplePlanned(incomePrimary, incomeOther, rent, mortgage, utilities)
    IN  [month |-> Month,
         categories |-> [i \in 1..Len(OnboardingNames) |->
            Category(<<"c", i - 1>>, <<OnboardingNames[i]>>, "none", NoText,
                     planned[i], 0)]]

\* localStorage keys: "budget", "txns" and `txns-${month}`
BudgetKey == <<"budget">>
BareKey == <<"txns">>
monthKey(month) == <<"txns-", month>>
Keys == {BudgetKey, BareKey, monthKey(Month)}

\* how localStorage fails in this session: "none", "quota" (setItem throws,
\* as with a full or zero quota) or "denied" (every access throws)
VARIABLE fault

\* try { localStorage.setItem(key, text) } catch {}: value is what the text
\* holds (the text of a ledger holds texts and finite numbers, which read back
\* as they were written)
setItem(store, key, value) ==
    IF fault = "none" THEN [store EXCEPT ![key] = Some(value)] ELSE store

\* try { localStorage.removeItem(key) } catch {}
removeItem(store, key) ==
    IF fault = "denied" THEN store ELSE [store EXCEPT ![key] = None]

\* localStorage.getItem returns (it throws when access is denied)
Readable == fault # "denied"

\* JSON.stringify and JSON.parse of a number: a JSON text has no NaN, the
\* number is written as null and comes back as null
JsonNumber(n) == [null |-> FALSE, num |-> n]
JsonNull == [null |-> TRUE, num |-> 0]
stringifyNumber(x) == IF isNaN(x) \/ isNull(x) THEN JsonNull ELSE JsonNumber(x.val)
parseNumber(t) == IF t.null THEN Null ELSE Num(t.num)

\* JSON.stringify(budget) and JSON.parse of that text (spent, a sum of the
\* amounts of the ledger, is a finite number and is written as it is)
stringify(b) ==
    [b EXCEPT !.categories =
        [i \in DOMAIN b.categories |->
            [b.categories[i] EXCEPT !.planned = stringifyNumber(@)]]]

parse(raw) ==
    [raw EXCEPT !.categories =
        [i \in DOMAIN raw.categories |->
            [raw.categories[i] EXCEPT !.planned = parseNumber(@)]]]

\* raw ? JSON.parse(raw) : []
LoadTxns(store, key) == IF store[key] = None THEN <<>> ELSE store[key][1]

\* sum of the amounts of the transactions of one category
SumFor(list, cid) ==
    LET f[i \in 0..Len(list)] ==
            IF i = 0 THEN 0
            ELSE f[i - 1] + (IF list[i].categoryId = cid THEN list[i].amount ELSE 0)
    IN f[Len(list)]

CatIds(b) == {b.categories[i].id : i \in DOMAIN b.categories}
CatById(b, id) == CHOOSE c \in Range(b.categories) : c.id = id


(***************************************************************************)
(* Budget store (RootLayout) and Reconciliation: pure parts                *)
(***************************************************************************)
\* a reconcile that counts the transactions of a category instead of adding
\* their amounts
reconcileCounting(b, store) ==
    LET list == LoadTxns(store, monthKey(b.month))
        count(cid) == Cardinality({k \in DOMAIN list : list[k].categoryId = cid})
    IN [b EXCEPT !.categories =
            [i \in DOMAIN b.categories |->
                [b.categories[i] EXCEPT !.spent = count(b.categories[i].id)]]]

\* reconcileFromStorage: spent of every category := sum over the stored ledger
reconcileFromStorage(b, store) ==
    LET list == LoadTxns(store, monthKey(b.month))
    IN [b EXCEPT !.categories =
            [i \in DOMAIN b.categories |->
                [b.categories[i] EXCEPT !.spent = SumFor(list, b.categories[i].id)]]]

\* getSpentByCategory: 0 without a budget or without a stored ledger
getSpentByCategory(bud, store, categoryId) ==
    IF bud = None THEN 0
    ELSE IF ~Readable \/ store[monthKey(bud[1].month)] = None THEN 0
    ELSE SumFor(store[monthKey(bud[1].month)][1], categoryId)

SumPlanned(cats, type) ==
    LET f[i \in 0..Len(cats)] ==
            IF i = 0 THEN 0
            ELSE f[i - 1] + (IF cats[i].type = type THEN orZero(cats[i].planned) ELSE 0)
    IN f[Len(cats)]

\* the loop of getTotals over the ledger: income ids to incomeReceived,
\* every other transaction to expenseSpent
SumWhere(list, ids, inside) ==
    LET f[i \in 0..Len(list)] ==
            IF i = 0 THEN 0
            ELSE f[i - 1] + (IF (list[i].categoryId \in ids) = inside
                             THEN list[i].amount ELSE 0)
    IN f[Len(list)]

getTotals(bud, store) ==
    IF bud = None
    THEN [incomePlanned |-> 0, incomeReceived |-> 0, expensePlanned |-> 0,
          expenseSpent |-> 0, leftoverPlanned |-> 0, leftoverActual |-> 0]
    ELSE LET b == bud[1]
             list == IF Readable THEN LoadTxns(store, monthKey(b.month)) ELSE <<>>
             incomeIds == {c.id : c \in {d \in Range(b.categories) : d.type = "income"}}
             ip == SumPlanned(b.categories, "income")
             ep == SumPlanned(b.categories, "expense")
             ir == SumWhere(list, incomeIds, TRUE)
             es == SumWhere(list, incomeIds, FALSE)
         IN [incomePlanned |-> ip, incomeReceived |-> ir, expensePlanned |-> ep,
             expenseSpent |-> es, leftoverPlanned |-> ip - ep,
             leftoverActual |-> ir - es]

\* an addCategory that puts the new category first
addCategoryFirst(b, id, name, type, group) ==
    [b EXCEPT !.categories = <<Category(id, trim(name), type, group, Num(0), 0)>> \o @]

\* addCategory of the store: appended, id String(Date.now()), name.trim(),
\* planned 0, the group when one is given
addCategoryStore(b, id, name, type, group) ==
    [b EXCEPT !.categories = Append(@, Category(id, trim(name), type, group, Num(0), 0))]

\* setPlanned: planned of the category of that id
setPlanned(b, categoryId, planned) ==
    [b EXCEPT !.categories =
        [i \in DOMAIN b.categories |->
            IF b.categories[i].id = categoryId
            THEN [b.categories[i] EXCEPT !.planned = planned]
            ELSE b.categories[i]]]

\* a reset that zeroes the wrong column
resetSpent(b) ==
    [b EXCEPT !.categories =
        [i \in DOMAIN b.categories |-> [b.categories[i] EXCEPT !.spent = 0]]]

\* resetMonth: every planned := 0, categories kept
resetPlanned(b) ==
    [b EXCEPT !.categories =
        [i \in DOMAIN b.categories |-> [b.categories[i] EXCEPT !.planned = Num(0)]]]

\* doDelete: b.categories.filter(c => c.id !== catId)
deleteCategory(b, catId) ==
    LET keep(c) == c.id # catId
    IN [b EXCEPT !.categories = SelectSeq(@, keep)]

\* confirmMove: the transactions of the source, their sum, the reassigned ledger
movedTxns(list, moveId) ==
    LET isSrc(t) == t.categoryId = moveId
    IN SelectSeq(list, isSrc)

\* a reassignment that forgets the test on the source
reassignEvery(list, moveId, moveTargetId) ==
    [i \in DOMAIN list |-> [list[i] EXCEPT !.categoryId = moveTargetId]]

reassign(list, moveId, moveTargetId) ==
    [i \in DOMAIN list |->
        IF list[i].categoryId = moveId
        THEN [list[i] EXCEPT !.categoryId = moveTargetId]
        ELSE list[i]]

\* cached totals without the clamp on the source
moveSpentUnclamped(b, moveId, moveTargetId, movedSum) ==
    [b EXCEPT !.categories =
        [i \in DOMAIN b.categories |->
            IF b.categories[i].id = moveId
            THEN [b.categories[i] EXCEPT !.spent = @ - movedSum]
            ELSE IF b.categories[i].id = moveTargetId
            THEN [b.categories[i] EXCEPT !.spent = @ + movedSum]
            ELSE b.categories[i]]]

\* confirmMove: cached totals, source clamped at 0
moveSpent(b, moveId, moveTargetId, movedSum) ==
    [b EXCEPT !.categories =
        [i \in DOMAIN b.categories |->
            IF b.categories[i].id = moveId
            THEN [b.categories[i] EXCEPT !.spent = Max(0, @ - movedSum)]
            ELSE IF b.categories[i].id = moveTargetId
            THEN [b.categories[i] EXCEPT !.spent = @ + movedSum]
            ELSE b.categories[i]]]

(***************************************************************************)
(* Transactions screen: pure parts                                         *)
(***************************************************************************)
\* an updater that puts the new transaction last and keeps the last 50
addNextTail(prev, t) ==
    LET all == prev \o <<t>>
    IN SubSeq(all, Max(1, Len(all) - Cap + 1), Len(all))

\* onAdd's updater: [t, ...prev].slice(0, 50)
addNext(prev, t) == Take(<<t>> \o prev, Cap)

\* performDelete's updater: prev.filter(t => t.id !== txn.id)
deleteNext(prev, txn) ==
    LET keep(t) == t.id # txn.id
    IN SelectSeq(prev, keep)

\* onUndo's updater: [lastDeleted, ...prev]
undoNext(prev, txn) == <<txn>> \o prev

\* an entry of the update queue of txns: a value (setTxns(list)) or an
\* updater still to run, which also writes its result under `key`
SetUpdate(list) == [kind |-> "set", txn |-> None, list |-> list, key |-> BareKey]
FnUpdate(kind, txn, key) == [kind |-> kind, txn |-> Some(txn), list |-> <<>>, key |-> key]

updaterResult(kind, prev, txn) ==
    CASE kind = "add" -> addNext(prev, txn)
      [] kind = "del" -> deleteNext(prev, txn)
      [] OTHER -> undoNext(prev, txn)

\* React applies the queued updates in order; an updater's localStorage
\* write happens when it runs
RECURSIVE processQueue(_, _, _)
processQueue(queue, state, store) ==
    IF queue = <<>> THEN [state |-> state, store |-> store]
    ELSE LET u == Head(queue)
         IN IF u.kind = "set"
            THEN processQueue(Tail(queue), u.list, store)
            ELSE LET next == updaterResult(u.kind, state, u.txn[1])
                 IN processQueue(Tail(queue), next, setItem(store, u.key, next))

\* storageKey: budget ? `txns-${budget.month}` : "txns"
storageKeyOf(bud) == IF bud = None THEN BareKey ELSE monthKey(bud[1].month)

(***************************************************************************)
(* State                                                                   *)
(***************************************************************************)
VARIABLES
    now,          \* Date.now()
    ls,           \* localStorage: key -> None | Some(value)
    budget,       \* RootLayout's budget state: None | Some(Budget)
    loaded,       \* RootLayout's load effect has run
    focus,        \* the route in front: index, onboarding, budget, transactions
    bMounted,     \* the Budget screen is mounted
    moveId,       \* Budget screen: source of the move being edited
    moveTargetId, \* Budget screen: chosen target of the move
    timers,       \* pending setTimeout(reconcileFromStorage, 50): captured budgets
    tMounted,     \* the Transactions screen is mounted
    tKey,         \* Transactions screen: storageKey of its last render
    txns,         \* Transactions screen: the txns state
    tQueue,       \* Transactions screen: queued setTxns updates
    catId,        \* Transactions screen: selected category
    lastDeleted,  \* Transactions screen: None | Some(Txn)
    undoVisible,  \* Transactions screen: the undo banner
    undoTimer,    \* Transactions screen: the pending 5000 ms timers, by id
    nOps,         \* user mutations so far (bounds the exploration)
    chain,        \* history: how far an add, remove of it, undo sequence has come
    cleared,      \* history: the transactions the resets found in the ledger
    last          \* the operation of the last step, its inputs and results

vars == <<now, ls, budget, loaded, focus, bMounted, moveId, moveTargetId, timers,
          tMounted, tKey, txns, tQueue, catId, lastDeleted, undoVisible,
          undoTimer, fault, nOps, chain, cleared, last>>

budgetVars == <<bMounted, moveId, moveTargetId>>
txnVars == <<tMounted, tKey, txns, tQueue, catId, lastDeleted, undoVisible, undoTimer>>

\* stage 1: t was added; 2: t was removed next, snap is the list it was
\* removed from; 3: the removal was undone next
NoChain == [stage |-> 0, t |-> None, snap |-> <<>>]

\* the persisted ledger of the active month
StoredLedger == IF budget = None THEN <<>> ELSE LoadTxns(ls, monthKey(budget[1].month))

Op(op) ==
    [op |-> op, src |-> NoCat, dst |-> NoCat, txn |-> None, cnt |-> 0, sum |-> 0,
     ok |-> TRUE, eager |-> TRUE, nan |-> FALSE,
     name |-> NoText, type |-> "", group |-> NoText, form |-> <<>>]

(***************************************************************************)
(* Initial states: a first visit (nothing stored) or a return visit with   *)
(* a stored budget and ledger; the page is opened on the index route or    *)
(* directly on the Budget tab.                                             *)
(***************************************************************************)
\* a stored ledger of n transactions, newest first, in turn of Utilities (c1)
\* and Groceries (c2)
Ledger(n) ==
    [i \in 1..n |-> Txn(0 - i, 1, "", <<"c", 1 + (i % 2)>>, "")]

EmptyStorage == [k \in Keys |-> None]

\* what an earlier session left: the ledger and the budget reconciled with it
ReturningStorage(list) ==
    [k \in Keys |->
        IF k = BudgetKey
        THEN Some(stringify(reconcileFromStorage(diyBudget,
                     [j \in Keys |-> IF j = monthKey(Month) THEN Some(list) ELSE None])))
        ELSE IF k = monthKey(Month) THEN Some(list)
        ELSE None]

InitWith(stores, faults) ==
    /\ now = 1
    /\ ls \in stores
    /\ fault \in faults
    /\ budget = None
    /\ loaded = FALSE
    /\ focus \in {"index", "budget"}
    /\ bMounted = (focus = "budget")
    /\ moveId = NoCat
    /\ moveTargetId = NoCat
    /\ timers = {}
    /\ tMounted = FALSE
    /\ tKey = BareKey
    /\ txns = <<>>
    /\ tQueue = <<>>
    /\ catId = NoCat
    /\ lastDeleted = None
    /\ undoVisible = FALSE
    /\ undoTimer = {}
    /\ nOps = 0
    /\ chain = NoChain
    /\ cleared = {}
    /\ last = Op("init")

Init == InitWith({EmptyStorage, ReturningStorage(Ledger(StoredTxns))}, {"none"})

(***************************************************************************)
(* Shared pieces of the handlers                                           *)
(***************************************************************************)
\* setBudget(b): setBudgetState(b); saveJSON("budget", b)
setBudgetIn(store, b) == setItem(store, BudgetKey, stringify(b))

\* the Transactions screen has a render to do: queued updates, a changed
\* storageKey, or the default category effect
NeedsDefaultCat ==
    /\ catId = NoCat
    /\ budget # None
    /\ Len(budget[1].categories) > 0

RenderPending ==
    /\ tMounted
    /\ \/ tQueue # <<>>
       \/ tKey # storageKeyOf(budget)
       \/ NeedsDefaultCat

\* React flushes the renders of a user event before the next one is handled
Idle == ~RenderPending

\* the "txns-updated" listener of the Budget screen: a reconcile timer that
\* keeps the budget of the render the listener was registered in
scheduleReconcile(set, bud) ==
    IF bMounted /\ bud # None THEN set \cup {bud[1]} ELSE set

CanSchedule == Cardinality(timers) < MaxTimers \/ (budget # None /\ budget[1] \in timers)

\* a listener that does not re-read the ledger
reloadNothing(queue, store, key) == queue

\* the "txns-updated" listener of the Transactions screen: reloadFromStorage
reloadFromStorage(queue, store, key) ==
    IF Readable THEN Append(queue, SetUpdate(LoadTxns(store, key))) ELSE queue

\* the categories the user picks among: the first two of onboarding and
\* every category added later
Pickable(b) ==
    {id \in CatIds(b) : id[1] # "c" \/ id[2] < 2}

(***************************************************************************)
(* Startup and navigation                                                  *)
(***************************************************************************)
\* RootLayout's effect: const saved = loadJSON("budget"); if (saved) setBudgetState(saved)
LoadBudget ==
    /\ ~loaded
    /\ loaded' = TRUE
    /\ budget' = IF Readable /\ ls[BudgetKey] # None
                 THEN Some(parse(ls[BudgetKey][1]))
                 ELSE budget
    /\ last' = Op("other")
    /\ UNCHANGED <<cleared, fault, chain, now, ls, focus, budgetVars, timers, txnVars, nOps>>

\* Index: budget ? <Redirect href="/(tabs)/budget" /> : <Redirect href="/(onboarding)" />
IndexRedirect ==
    /\ focus = "index"
    /\ focus' = IF budget # None THEN "budget" ELSE "onboarding"
    /\ bMounted' = (budget # None)
    /\ last' = Op("other")
    /\ UNCHANGED <<cleared, fault, chain, now, ls, budget, loaded, moveId, moveTargetId, timers, txnVars, nOps>>

\* Budget screen without a budget: router.push("/(onboarding)")
GoOnboarding ==
    /\ focus = "budget" /\ loaded /\ budget = None
    /\ focus' = "onboarding"
    /\ last' = Op("other")
    /\ UNCHANGED <<cleared, fault, chain, now, ls, budget, loaded, budgetVars, timers, txnVars, nOps>>

\* Onboarding, DIY: setBudget({month, categories}); router.replace("/(tabs)/budget")
Onboard ==
    /\ focus = "onboarding" /\ loaded /\ Idle
    /\ budget' = Some(diyBudget)
    /\ ls' = setBudgetIn(ls, diyBudget)
    /\ focus' = "budget"
    /\ bMounted' = TRUE
    /\ last' = Op("onboard")
    /\ UNCHANGED <<cleared, fault, chain, now, loaded, moveId, moveTargetId, timers, txnVars, nOps>>

\* Onboarding, sample: the five fields as typed, then "Use Suggested Sample":
\* setBudget({month, categories}); router.replace("/(tabs)/budget")
OnboardSample ==
    /\ focus = "onboarding" /\ loaded /\ Idle
    /\ \E incomePrimary \in IncomePrimaryInputs, incomeOther \in IncomeOtherInputs,
          rent \in RentInputs, mortgage \in MortgageInputs,
          utilities \in UtilitiesInputs :
          LET b == sampleBudget(incomePrimary, incomeOther, rent, mortgage, utilities)
          IN  /\ budget' = Some(b)
              /\ ls' = setBudgetIn(ls, b)
              /\ last' = [Op("sample") EXCEPT
                    !.form = <<incomePrimary, incomeOther, rent, mortgage, utilities>>]
    /\ focus' = "budget"
    /\ bMounted' = TRUE
    /\ UNCHANGED <<cleared, fault, chain, now, loaded, moveId, moveTargetId, timers, txnVars, nOps>>

\* the tab bar; a focused Transactions screen runs its focus effect
SwitchTab ==
    /\ focus \in {"budget", "transactions"} /\ loaded /\ Idle
    /\ nOps < MaxLedgerOps
    /\ IF focus = "budget"
       THEN /\ focus' = "transactions"
            /\ tQueue' = IF tMounted THEN reloadFromStorage(tQueue, ls, tKey) ELSE tQueue
            /\ UNCHANGED bMounted
       ELSE /\ focus' = "budget"
            /\ bMounted' = TRUE
            /\ UNCHANGED tQueue
    /\ last' = Op("other")
    /\ UNCHANGED <<cleared, fault, chain, now, ls, budget, loaded, moveId, moveTargetId, timers, tMounted,
                   tKey, txns, catId, lastDeleted, undoVisible, undoTimer, nOps>>

\* Date.now() moves on
Tick ==
    /\ now < MaxClock /\ Idle
    /\ nOps < MaxOps
    /\ now' = now + 1
    /\ last' = Op("other")
    /\ UNCHANGED <<cleared, fault, chain, ls, budget, loaded, focus, budgetVars, timers, txnVars, nOps>>

(***************************************************************************)
(* Budget screen                                                           *)
(***************************************************************************)
BudgetReady == focus = "budget" /\ bMounted /\ loaded /\ budget # None /\ Idle

\* the effect of the Budget screen has to run: its dependency
\* reconcileFromStorage is a new function whenever budget is a new object, and
\* every setBudget, that of the effect included, stores a new object
EffectPending == bMounted /\ budget # None

\* the effect of the Budget screen: it runs on mount and again whenever the
\* budget object changes, and calls reconcileFromStorage(), which calls
\* setBudget with a new object
BudgetEffect ==
    /\ EffectPending
    /\ LET next == IF Readable THEN reconcileFromStorage(budget[1], ls) ELSE budget[1]
           written == IF Readable THEN setBudgetIn(ls, next) ELSE ls
       IN /\ budget' = Some(next)
          /\ ls' = written
          /\ last' = IF next = budget[1] /\ written = ls THEN last ELSE Op("reconcile")
    /\ UNCHANGED <<cleared, fault, chain, now, loaded, focus, budgetVars, timers, txnVars, nOps>>

\* setTimeout(reconcileFromStorage, 50) fires with the budget it captured
ReconcileTimer ==
    \E cb \in timers :
        /\ timers' = timers \ {cb}
        /\ IF Readable
           THEN LET next == reconcileFromStorage(cb, ls)
                IN /\ budget' = Some(next)
                   /\ ls' = setBudgetIn(ls, next)
           ELSE UNCHANGED <<budget, ls>>
        /\ last' = Op("reconcileTimer")
        /\ UNCHANGED <<cleared, fault, chain, now, loaded, focus, budgetVars, txnVars, nOps>>

\* confirmDelete(item.id, item.name, item.spent || 0), the user confirming
confirmDelete ==
    \E id \in Pickable(budget[1]) :
        LET c == CatById(budget[1], id)
        IN /\ nOps < MaxOps
           /\ IF c.spent > 0
              THEN /\ last' = [Op("confirmDelete") EXCEPT !.src = id, !.ok = FALSE]
                   /\ UNCHANGED <<budget, ls>>
              ELSE /\ budget' = Some(deleteCategory(budget[1], id))
                   /\ ls' = setBudgetIn(ls, deleteCategory(budget[1], id))
                   /\ last' = [Op("confirmDelete") EXCEPT !.src = id]
           /\ nOps' = nOps + 1
           /\ chain' = NoChain
           /\ UNCHANGED <<cleared, fault, now, loaded, focus, budgetVars, timers, txnVars>>

ConfirmDelete == BudgetReady /\ confirmDelete

\* startMove(sourceId): the first other category is preselected
startMove ==
    \E id \in Pickable(budget[1]) :
        /\ moveId' = id
        /\ LET others == {i \in DOMAIN budget[1].categories : budget[1].categories[i].id # id}
           IN moveTargetId' = IF others = {} THEN NoCat
                              ELSE budget[1].categories[CHOOSE i \in others : \A j \in others : i <= j].id
        /\ last' = Op("other")
        /\ UNCHANGED <<cleared, fault, chain, now, ls, budget, loaded, focus, bMounted, timers, txnVars, nOps>>

StartMove == BudgetReady /\ nOps < MaxOps /\ startMove

\* a target chip of the row being moved: setMoveTargetId(c.id)
PickMoveTarget ==
    /\ BudgetReady
    /\ nOps < MaxOps
    /\ moveId \in CatIds(budget[1])
    /\ \E id \in Pickable(budget[1]) \ {moveId, moveTargetId} :
        /\ moveTargetId' = id
        /\ last' = Op("other")
    /\ UNCHANGED <<cleared, fault, chain, now, ls, budget, loaded, focus, bMounted, moveId, timers, txnVars, nOps>>

\* confirmMove, from the Move button of the row of moveId
confirmMove ==
    LET key == monthKey(budget[1].month)
        list == LoadTxns(ls, key)
        moved == movedTxns(list, moveId)
        movedSum == SumFor(moved, moveId)
        updated == reassign(list, moveId, moveTargetId)
        next == moveSpent(budget[1], moveId, moveTargetId, movedSum)
        written == [ls EXCEPT ![key] = Some(updated)]
    IN IF moveId = NoCat \/ moveTargetId = NoCat \/ moveId = moveTargetId
       THEN /\ last' = [Op("confirmMove") EXCEPT !.src = moveId, !.dst = moveTargetId, !.ok = FALSE]
            /\ UNCHANGED <<ls, budget, moveId, moveTargetId, timers, tQueue>>
       ELSE IF ~Readable \/ (fault # "none" /\ Len(moved) > 0)
       THEN \* getItem or setItem threw: catch (e) { window.alert("Failed ...") }
            /\ last' = [Op("confirmMove") EXCEPT !.src = moveId, !.dst = moveTargetId, !.ok = FALSE]
            /\ UNCHANGED <<ls, budget, moveId, moveTargetId, timers, tQueue>>
       ELSE IF Len(moved) = 0
       THEN /\ moveId' = NoCat
            /\ moveTargetId' = NoCat
            /\ last' = [Op("confirmMove") EXCEPT !.src = moveId, !.dst = moveTargetId]
            /\ UNCHANGED <<ls, budget, timers, tQueue>>
       ELSE /\ ls' = setBudgetIn(written, next)
            /\ budget' = Some(next)
            /\ timers' = scheduleReconcile(timers, budget)
            /\ tQueue' = IF tMounted THEN reloadFromStorage(tQueue, written, tKey) ELSE tQueue
            /\ moveId' = NoCat
            /\ moveTargetId' = NoCat
            /\ last' = [Op("confirmMove") EXCEPT !.src = moveId, !.dst = moveTargetId,
                                                 !.cnt = Len(moved), !.sum = movedSum]

ConfirmMove ==
    /\ BudgetReady
    /\ moveId \in CatIds(budget[1])
    /\ moveTargetId # NoCat
    /\ CanSchedule
    /\ nOps < MaxOps
    /\ confirmMove
    /\ nOps' = nOps + 1
    /\ chain' = NoChain
    /\ UNCHANGED <<cleared, fault, now, loaded, focus, bMounted, tMounted, tKey, txns, catId,
                   lastDeleted, undoVisible, undoTimer>>

\* the Add button of the add-category form: nothing for a name that is blank,
\* else the store's addCategory(name, type) or addCategory(name, "expense",
\* group || "Miscellaneous")
addCategoryForm(newCatName, addingType, newCatGroup) ==
    LET group == IF addingType = "income" THEN NoText
                 ELSE IF trim(newCatGroup) = NoText THEN <<"Miscellaneous">>
                 ELSE trim(newCatGroup)
        next == addCategoryStore(budget[1], <<"t", now>>, trim(newCatName), addingType, group)
        args == [Op("addCategory") EXCEPT !.src = <<"t", now>>, !.name = newCatName,
                                          !.type = addingType, !.group = group]
    IN IF trim(newCatName) = NoText
       THEN /\ last' = [args EXCEPT !.ok = FALSE]
            /\ UNCHANGED <<budget, ls>>
       ELSE /\ budget' = Some(next)
            /\ ls' = setBudgetIn(ls, next)
            /\ last' = args

AddCategory ==
    /\ BudgetReady
    /\ nOps < MaxOps
    /\ \E name \in NameInputs, type \in {"income", "expense"}, group \in GroupInputs :
        /\ type = "income" => group = NoText
        /\ addCategoryForm(name, type, group)
    /\ nOps' = nOps + 1
    /\ chain' = NoChain
    /\ UNCHANGED <<cleared, fault, now, loaded, focus, budgetVars, timers, txnVars>>

\* saveEdit of a budget row: setPlanned(editingId, isNaN(num) ? 0 : num)
saveEdit(id, num) ==
    LET next == setPlanned(budget[1], id, IF isNaN(num) THEN Num(0) ELSE num)
    IN /\ budget' = Some(next)
       /\ ls' = setBudgetIn(ls, next)
       /\ last' = [Op("setPlanned") EXCEPT !.src = id, !.sum = num.val, !.nan = num.nan]

SetPlanned ==
    /\ BudgetReady
    /\ nOps < MaxOps
    /\ \E id \in Pickable(budget[1]), num \in PlannedInputs : saveEdit(id, num)
    /\ nOps' = nOps + 1
    /\ chain' = NoChain
    /\ UNCHANGED <<cleared, fault, now, loaded, focus, budgetVars, timers, txnVars>>

\* resetMonth: localStorage.removeItem(monthKey(prev.month)); planned := 0
resetMonth(b, store) ==
    LET next == resetPlanned(b)
    IN [budget |-> Some(next),
        ls |-> setBudgetIn(removeItem(store, monthKey(b.month)), next)]

\* the Reset Month button; last keeps how many transactions and how much
\* planned money the reset found
ResetMonth ==
    /\ BudgetReady
    /\ nOps < MaxOps
    /\ budget' = resetMonth(budget[1], ls).budget
    /\ ls' = resetMonth(budget[1], ls).ls
    /\ cleared' = cleared \cup Range(StoredLedger)
    /\ nOps' = nOps + 1
    /\ chain' = NoChain
    /\ last' = [Op("resetMonth") EXCEPT
                    !.cnt = Len(StoredLedger),
                    !.sum = SumPlanned(budget[1].categories, "none")
                            + SumPlanned(budget[1].categories, "income")
                            + SumPlanned(budget[1].categories, "expense")]
    /\ UNCHANGED <<fault, now, loaded, focus, budgetVars, timers, txnVars>>

(***************************************************************************)
(* Transactions screen                                                     *)
(***************************************************************************)
TxnReady == focus = "transactions" /\ tMounted /\ loaded /\ budget # None /\ Idle

\* first render (txns = []) and its effects, in the order of declaration:
\* load, focus, listeners, default category, persist
MountT ==
    /\ focus = "transactions" /\ ~tMounted
    /\ LET key == storageKeyOf(budget)
       IN /\ tMounted' = TRUE
          /\ tKey' = key
          /\ txns' = <<>>
          /\ tQueue' = reloadFromStorage(reloadFromStorage(<<>>, ls, key), ls, key)
          /\ catId' = IF NeedsDefaultCat THEN budget[1].categories[1].id ELSE catId
          /\ ls' = setItem(ls, key, <<>>)
    /\ last' = Op("other")
    /\ UNCHANGED <<cleared, fault, chain, now, budget, loaded, focus, budgetVars, timers, lastDeleted,
                   undoVisible, undoTimer, nOps>>

\* a render of the Transactions screen, its commit and its effects
TRender ==
    /\ RenderPending
    /\ LET key == storageKeyOf(budget)
           r == processQueue(tQueue, txns, ls)
           keyChanged == key # tKey
           reloads == IF ~keyChanged THEN <<>>
                      ELSE IF focus = "transactions"
                      THEN reloadFromStorage(reloadFromStorage(<<>>, r.store, key), r.store, key)
                      ELSE reloadFromStorage(<<>>, r.store, key)
       IN /\ txns' = r.state
          /\ tKey' = key
          /\ tQueue' = reloads
          /\ catId' = IF NeedsDefaultCat THEN budget[1].categories[1].id ELSE catId
          /\ ls' = IF tQueue # <<>> \/ keyChanged
                   THEN setItem(r.store, key, r.state)
                   ELSE r.store
    /\ last' = Op("other")
    /\ UNCHANGED <<cleared, fault, chain, now, budget, loaded, focus, budgetVars, timers, tMounted,
                   lastDeleted, undoVisible, undoTimer, nOps>>

\* a category chip: setCatId(c.id)
SetCat ==
    /\ TxnReady
    /\ nOps < MaxOps
    /\ \E id \in Pickable(budget[1]) \ {catId} :
        /\ catId' = id
        /\ last' = Op("other")
    /\ UNCHANGED <<cleared, fault, chain, now, ls, budget, loaded, focus, budgetVars, timers, tMounted, tKey,
                   txns, tQueue, lastDeleted, undoVisible, undoTimer, nOps>>

\* a ledger mutation of the Transactions screen: setTxns(updater), whose
\* body also writes localStorage, then window.dispatchEvent("txns-updated")
mutate(kind, txn, eager) ==
    LET next == updaterResult(kind, txns, txn)
        written == IF eager THEN setItem(ls, tKey, next) ELSE ls
        queued == IF eager THEN <<SetUpdate(next)>> ELSE <<FnUpdate(kind, txn, tKey)>>
    IN /\ ls' = written
       /\ tQueue' = reloadFromStorage(queued, written, tKey)
       /\ timers' = scheduleReconcile(timers, budget)

\* onAdd: if (!catId || isNaN(amt) || amt <= 0) return
onAdd(amt, merchant, eager) ==
    LET t == Txn(now, amt.val, merchant, catId, "")
    IN IF catId = NoCat \/ isNaN(amt) \/ amt.val <= 0
       THEN /\ last' = [Op("onAdd") EXCEPT !.ok = FALSE, !.src = catId,
                                           !.sum = amt.val, !.nan = amt.nan]
            /\ chain' = NoChain
            /\ UNCHANGED <<ls, tQueue, timers>>
       ELSE /\ mutate("add", t, eager)
            /\ chain' = [stage |-> 1, t |-> Some(t), snap |-> <<>>]
            /\ last' = [Op("onAdd") EXCEPT !.txn = Some(t), !.src = catId, !.eager = eager,
                                           !.sum = amt.val]

OnAdd ==
    /\ TxnReady /\ CanSchedule
    /\ nOps < MaxLedgerOps
    /\ \E amt \in AmountInputs, merchant \in MerchantInputs, eager \in BOOLEAN :
        onAdd(amt, merchant, eager)
    /\ nOps' = nOps + 1
    /\ UNCHANGED <<cleared, fault, now, budget, loaded, focus, budgetVars, tMounted, tKey, txns, catId,
                   lastDeleted, undoVisible, undoTimer>>

\* setTimeout returns an id greater than those of the timers started before;
\* ids are compared among the pending timers only
setTimeoutId(pending) ==
    1 + (IF pending = {} THEN 0 ELSE CHOOSE h \in pending : \A g \in pending : g <= h)

\* a remove that leaves the timer of the remove before it running
keepUndoTimer(pending) == pending

\* if (undoTimerRef.current) clearTimeout(undoTimerRef.current): the ref holds
\* the timer started last
clearUndoTimer(pending) ==
    pending \ {h \in pending : \A g \in pending : g <= h}

\* performDelete(txn), the user having confirmed the long press
performDelete(txn, eager) ==
    /\ mutate("del", txn, eager)
    /\ lastDeleted' = Some(txn)
    /\ undoVisible' = TRUE
    /\ LET kept == clearUndoTimer(undoTimer)
       IN undoTimer' = kept \cup {setTimeoutId(kept)}
    /\ chain' = IF chain.stage = 1 /\ chain.t = Some(txn)
                THEN [chain EXCEPT !.stage = 2, !.snap = txns]
                ELSE NoChain
    /\ last' = [Op("performDelete") EXCEPT !.txn = Some(txn), !.eager = eager]

PerformDelete ==
    /\ TxnReady /\ CanSchedule
    /\ nOps < MaxLedgerOps
    /\ \E i \in 1..Min(RemovePick, Len(txns)), eager \in BOOLEAN :
        performDelete(txns[i], eager)
    /\ nOps' = nOps + 1
    /\ UNCHANGED <<cleared, fault, now, budget, loaded, focus, budgetVars, tMounted, tKey, txns, catId>>

\* an undo that leaves lastDeleted and the banner as they are
onUndoKeeps(eager) ==
    IF lastDeleted = None
    THEN /\ last' = [Op("onUndo") EXCEPT !.ok = FALSE]
         /\ chain' = NoChain
         /\ UNCHANGED <<ls, tQueue, timers, lastDeleted, undoVisible, undoTimer>>
    ELSE /\ mutate("undo", lastDeleted[1], eager)
         /\ undoTimer' = clearUndoTimer(undoTimer)
         /\ chain' = NoChain
         /\ last' = [Op("onUndo") EXCEPT !.txn = lastDeleted, !.eager = eager]
         /\ UNCHANGED <<lastDeleted, undoVisible>>

\* onUndo: if (!lastDeleted) return; else the list with lastDeleted put back
\* in front, the handle and its timer cleared
onUndo(eager) ==
    IF lastDeleted = None
    THEN /\ last' = [Op("onUndo") EXCEPT !.ok = FALSE]
         /\ chain' = NoChain
         /\ UNCHANGED <<ls, tQueue, timers, lastDeleted, undoVisible, undoTimer>>
    ELSE /\ mutate("undo", lastDeleted[1], eager)
         /\ lastDeleted' = None
         /\ undoVisible' = FALSE
         /\ undoTimer' = clearUndoTimer(undoTimer)
         /\ chain' = IF chain.stage = 2 /\ chain.t = lastDeleted
                     THEN [chain EXCEPT !.stage = 3]
                     ELSE NoChain
         /\ last' = [Op("onUndo") EXCEPT !.txn = lastDeleted, !.eager = eager]

\* the Undo button is rendered while: undoVisible && lastDeleted
UndoShown == undoVisible /\ lastDeleted # None

\* a call of onUndo
OnUndo ==
    /\ TxnReady /\ CanSchedule
    /\ nOps < MaxLedgerOps
    /\ \E eager \in BOOLEAN : onUndo(eager)
    /\ nOps' = nOps + 1
    /\ UNCHANGED <<cleared, fault, now, budget, loaded, focus, budgetVars, tMounted, tKey, txns, catId>>

\* the 5000 ms timer of performDelete
UndoExpire ==
    /\ \E h \in undoTimer : undoTimer' = undoTimer \ {h}
    /\ undoVisible' = FALSE
    /\ lastDeleted' = None
    /\ last' = Op("other")
    /\ UNCHANGED <<cleared, fault, chain, now, ls, budget, loaded, focus, budgetVars, timers, tMounted, tKey,
                   txns, tQueue, catId, nOps>>

(***************************************************************************)
(* Specification                                                           *)
(***************************************************************************)
Next ==
    \/ LoadBudget
    \/ IndexRedirect
    \/ GoOnboarding
    \/ Onboard
    \/ (nOps < MaxOps /\ SwitchTab)
    \/ Tick
    \/ BudgetEffect
    \/ ReconcileTimer
    \/ ConfirmDelete
    \/ StartMove
    \/ PickMoveTarget
    \/ ConfirmMove
    \/ AddCategory
    \/ SetPlanned
    \/ ResetMonth
    \/ MountT
    \/ TRender
    \/ SetCat
    \/ OnAdd
    \/ PerformDelete
    \/ (UndoShown /\ OnUndo)
    \/ UndoExpire

Spec == Init /\ [][Next]_vars

\* a returning user whose stored ledger is at capacity, working on the
\* Transactions screen
InitFull == InitWith({ReturningStorage(Ledger(Cap))}, {"none"})

NextLedger ==
    \/ LoadBudget
    \/ IndexRedirect
    \/ Onboard
    \/ (nOps < MaxOps /\ SwitchTab)
    \/ Tick
    \/ BudgetEffect
    \/ ReconcileTimer
    \/ MountT
    \/ TRender
    \/ OnAdd
    \/ PerformDelete
    \/ (UndoShown /\ OnUndo)
    \/ UndoExpire

SpecFull == InitFull /\ [][NextLedger]_vars

\* what runs without the user: React renders the updates it has queued and
\* mounts the screen in front, a timer that was set fires, and the effect of
\* the Budget screen runs after a render that changed its dependencies
Fairness ==
    /\ WF_vars(MountT)
    /\ WF_vars(TRender)
    /\ WF_vars(ReconcileTimer)
    /\ WF_vars(BudgetEffect)

\* the ledger mutations of the two screens, at most MaxLiveOps of them, and
\* everything that follows from them
NextLive ==
    \/ LoadBudget
    \/ IndexRedirect
    \/ Onboard
    \/ (nOps < MaxOps /\ SwitchTab)
    \/ BudgetEffect
    \/ ReconcileTimer
    \/ MountT
    \/ TRender
    \/ UndoExpire
    \/ (nOps < MaxLiveOps /\ StartMove)
    \/ (nOps < MaxLiveOps /\ ConfirmMove)
    \/ (nOps < MaxLiveOps /\ OnAdd)
    \/ (nOps < MaxLiveOps /\ PerformDelete)
    \/ (nOps < MaxLiveOps /\ UndoShown /\ OnUndo)

SpecLive == Init /\ [][NextLive]_vars /\ Fairness

\* a session in which localStorage fails: the mutations of the ledger and of
\* the budget, and everything that follows from them
InitFault ==
    InitWith({EmptyStorage, ReturningStorage(Ledger(StoredTxns))}, {"quota", "denied"})

NextFault ==
    \/ LoadBudget
    \/ IndexRedirect
    \/ GoOnboarding
    \/ Onboard
    \/ (nOps < MaxOps /\ SwitchTab)
    \/ Tick
    \/ BudgetEffect
    \/ ReconcileTimer
    \/ AddCategory
    \/ SetPlanned
    \/ MountT
    \/ TRender
    \/ OnAdd
    \/ PerformDelete
    \/ (UndoShown /\ OnUndo)
    \/ UndoExpire

SpecFault == InitFault /\ [][NextFault]_vars

\* a first or a return visit that goes through the onboarding screen, with
\* either of its two buttons, and the Budget screen that follows
NextOnboarding ==
    \/ LoadBudget
    \/ IndexRedirect
    \/ GoOnboarding
    \/ Onboard
    \/ OnboardSample
    \/ BudgetEffect
    \/ SetPlanned

SpecOnboarding == Init /\ [][NextOnboarding]_vars

\* a returning user who goes between the two tabs, changes the ledger and
\* resets the month
InitReturning == InitWith({ReturningStorage(Ledger(StoredTxns))}, {"none"})

NextReset ==
    \/ LoadBudget
    \/ IndexRedirect
    \/ SwitchTab
    \/ BudgetEffect
    \/ ReconcileTimer
    \/ ResetMonth
    \/ MountT
    \/ TRender
    \/ OnAdd
    \/ PerformDelete
    \/ OnUndo
    \/ UndoExpire

SpecReset == InitReturning /\ [][NextReset]_vars

(***************************************************************************)
(* Vocabulary of the properties                                            *)
(***************************************************************************)
\* sum of the amounts of the entries of `list` in category cid, entry by entry
RECURSIVE AmountOf(_, _)
AmountOf(list, cid) ==
    IF list = <<>> THEN 0
    ELSE (IF Head(list).categoryId = cid THEN Head(list).amount ELSE 0)
         + AmountOf(Tail(list), cid)

Reconciled(b, list) ==
    \A i \in DOMAIN b.categories :
        b.categories[i].spent = AmountOf(list, b.categories[i].id)

\* the step just taken was a run of reconcileFromStorage
JustReconciled == last.op \in {"reconcile", "reconcileTimer"}

(***************************************************************************)
(* Spend consistency                                                       *)
(***************************************************************************)
\* C1: once reconciliation has run, every category's spent equals the sum of
\* the amounts of the transactions of the active month's persisted ledger
\* whose categoryId is that category's id
C1_SpendConsistency ==
    JustReconciled => Reconciled(budget[1], StoredLedger)

\* C1 witness: reconciliation ran after an add and another ledger mutation,
\* and found spend in two categories
C1_Witness ==
    /\ JustReconciled
    /\ nOps >= 2
    /\ \E i, j \in DOMAIN budget[1].categories :
        /\ i # j
        /\ budget[1].categories[i].spent > 1
        /\ budget[1].categories[j].spent > 0

(***************************************************************************)
(* Category delete guard                                                   *)
(***************************************************************************)
\* the categories of b without the one of the given id, order kept
Without(b, id) ==
    LET keep(c) == c.id # id
    IN SelectSeq(b.categories, keep)

\* C2: a delete removes the category only when its ledger-derived spend is
\* zero at that time; with a nonzero spend the budget is unchanged; a delete
\* that succeeds removes exactly that category; the ledger is unchanged
C2_DeleteGuard ==
    [][ConfirmDelete =>
        LET id == last'.src
            derived == AmountOf(StoredLedger, id)
        IN /\ derived # 0 => budget' = budget
           /\ budget' # budget =>
                /\ derived = 0
                /\ budget'[1].month = budget[1].month
                /\ budget'[1].categories = Without(budget[1], id)
           /\ \A k \in Keys \ {BudgetKey} : ls'[k] = ls[k]]_vars

\* what confirmDelete does keep of it: the guard on the cached spent, the
\* removal of exactly that category, and the ledger left alone
DeleteFrame ==
    [][ConfirmDelete =>
        LET id == last'.src
        IN /\ budget' # budget =>
                /\ budget'[1].month = budget[1].month
                /\ budget'[1].categories = Without(budget[1], id)
           /\ CatById(budget[1], id).spent > 0 => budget' = budget
           /\ \A k \in Keys \ {BudgetKey} : ls'[k] = ls[k]]_vars

(***************************************************************************)
(* Moving the transactions of a category                                   *)
(***************************************************************************)
\* a step of confirmMove that moved transactions between two present,
\* different categories
Moved ==
    /\ ConfirmMove
    /\ last'.ok /\ last'.cnt > 0
    /\ moveId # moveTargetId
    /\ {moveId, moveTargetId} \subseteq CatIds(budget[1])

\* C3: a move changes only categoryId fields of the ledger: same length and
\* order, every other field of every transaction kept, the transactions of
\* the source now in the target, none left in the source, the rest untouched
C3_MoveFrame ==
    [][Moved =>
        LET before == StoredLedger
            after == LoadTxns(ls', monthKey(budget[1].month))
        IN /\ Len(after) = Len(before)
           /\ \A i \in DOMAIN before :
                /\ after[i].id = before[i].id
                /\ after[i].amount = before[i].amount
                /\ after[i].date = before[i].date
                /\ after[i].merchant = before[i].merchant
                /\ after[i].notes = before[i].notes
                /\ before[i].categoryId = moveId => after[i].categoryId = moveTargetId
                /\ before[i].categoryId # moveId => after[i] = before[i]
                /\ after[i].categoryId # moveId]_vars

\* C3 witness: a move took place and left transactions of another category
\* in the ledger
C3_Witness ==
    /\ last.op = "confirmMove" /\ last.ok /\ last.cnt > 0
    /\ {last.src, last.dst} \subseteq CatIds(budget[1])
    /\ \E i \in DOMAIN StoredLedger : StoredLedger[i].categoryId \notin {last.src, last.dst}
    /\ \E i \in DOMAIN StoredLedger : StoredLedger[i].amount = 2

\* C4: a move reports the number and the sum of the transactions of the
\* source, takes the sum from the source's cached spent (not below 0), adds
\* it to the target's and leaves every other category's spent alone
C4_MoveSpent ==
    [][Moved =>
        LET before == StoredLedger
            n == Cardinality({i \in DOMAIN before : before[i].categoryId = moveId})
            sum == AmountOf(before, moveId)
            old == budget[1].categories
            new == budget'[1].categories
        IN /\ last'.cnt = n
           /\ last'.sum = sum
           /\ DOMAIN new = DOMAIN old
           /\ \A i \in DOMAIN old :
                /\ new[i].id = old[i].id
                /\ old[i].id = moveId =>
                      /\ new[i].spent = (IF old[i].spent - sum > 0 THEN old[i].spent - sum ELSE 0)
                      /\ new[i].spent >= 0
                /\ old[i].id = moveTargetId => new[i].spent = old[i].spent + sum
                /\ old[i].id \notin {moveId, moveTargetId} => new[i] = old[i]]_vars

\* C4 witness: a move of two transactions totalling 3 emptied the source's
\* cached spent and raised the target's
C4_Witness ==
    /\ last.op = "confirmMove" /\ last.ok
    /\ last.cnt = 2 /\ last.sum = 3
    /\ {last.src, last.dst} \subseteq CatIds(budget[1])
    /\ CatById(budget[1], last.src).spent = 0
    /\ CatById(budget[1], last.dst).spent >= 3

(***************************************************************************)
(* Undo of a removal                                                       *)
(***************************************************************************)
\* C5: after add returned t, remove(t.id) and then undoRemove(t) leave the
\* ledger with the set of transactions it had right after the add, and with
\* t at its head (observed once the screen has rendered the undo)
C5_UndoRestores ==
    (chain.stage = 3 /\ Idle) =>
        /\ Range(StoredLedger) = Range(chain.snap)
        /\ Range(txns) = Range(chain.snap)
        /\ StoredLedger # <<>> /\ Head(StoredLedger) = chain.t[1]
        /\ txns # <<>> /\ Head(txns) = chain.t[1]

(***************************************************************************)
(* Reset of the month                                                      *)
(***************************************************************************)
\* C6: resetMonth leaves the ledger of the month empty and every planned
\* at 0, keeps the categories, their order and each id, name, type and group,
\* and a second resetMonth right after it changes nothing
C6_ResetMonth ==
    [][ResetMonth =>
        LET old == budget[1].categories
            new == budget'[1].categories
            again == resetMonth(budget'[1], ls')
        IN /\ LoadTxns(ls', monthKey(budget'[1].month)) = <<>>
           /\ budget'[1].month = budget[1].month
           /\ DOMAIN new = DOMAIN old
           /\ \A i \in DOMAIN old :
                /\ new[i].planned = Num(0)
                /\ new[i].id = old[i].id
                /\ new[i].name = old[i].name
                /\ new[i].type = old[i].type
                /\ new[i].group = old[i].group
           /\ again.budget = budget'
           /\ again.ls = ls']_vars

\* C6 witness: a reset that found transactions in the ledger and planned
\* money in the budget
C6_Witness ==
    /\ last.op = "resetMonth"
    /\ last.cnt > 0 /\ last.sum > 0
    /\ StoredLedger = <<>>

(***************************************************************************)
(* Capacity of the ledger                                                  *)
(***************************************************************************)
\* C7: in every reachable state the ledger holds at most Cap transactions,
\* in the memory of the Transactions screen and as persisted
C7_Capacity ==
    /\ Len(txns) <= Cap
    /\ \A k \in Keys \ {BudgetKey} : Len(LoadTxns(ls, k)) <= Cap

(***************************************************************************)
(* Persist, then notify                                                    *)
(***************************************************************************)
\* a step of onAdd, performDelete or onUndo that went through
LedgerStep ==
    /\ OnAdd \/ PerformDelete \/ OnUndo
    /\ last'.ok /\ last'.txn # None

\* the ledger such a step is to produce from the list on screen
PostLedger(op, prev, t) ==
    CASE op = "onAdd" -> SubSeq(<<t>> \o prev, 1, IF Len(prev) + 1 > Cap THEN Cap ELSE Len(prev) + 1)
      [] op = "performDelete" -> LET keep(x) == x.id # t.id IN SelectSeq(prev, keep)
      [] OTHER -> <<t>> \o prev

\* what the "txns-updated" listener of the Transactions screen read when the
\* step notified it: the value of the update it queued last
ReadOnNotify(queue) == queue[Len(queue)].list

\* C8: every ledger mutation has written the post-mutation ledger to
\* localStorage when it emits "txns-updated", so that a listener that
\* re-reads the ledger on the event reads the post-mutation ledger
C8_WriteBeforeNotify ==
    [][(LedgerStep =>
            LET post == PostLedger(last'.op, txns, last'.txn[1])
            IN /\ LoadTxns(ls', tKey) = post
               /\ ReadOnNotify(tQueue') = post)
       /\
       (Moved =>
            LET moved == LoadTxns(ls', monthKey(budget[1].month))
            IN /\ \A i \in DOMAIN moved : moved[i].categoryId # moveId
               /\ tMounted => ReadOnNotify(tQueue') = moved)]_vars

\* the moves do write before they notify
MoveWritesBeforeNotify ==
    [][Moved =>
        LET post == LoadTxns(ls', monthKey(budget[1].month))
        IN /\ \A i \in DOMAIN post : post[i].categoryId # moveId
           /\ tMounted => ReadOnNotify(tQueue') = post]_vars

(***************************************************************************)
(* Consistency across the screens                                          *)
(***************************************************************************)
\* the view of the Budget screen (per-category spent) is what the persisted
\* ledger gives
BudgetViewCurrent ==
    (bMounted /\ budget # None) => Reconciled(budget[1], StoredLedger)

\* the view of the Transactions screen (its list) is the persisted ledger
TxnViewCurrent ==
    tMounted => (tQueue = <<>> /\ txns = LoadTxns(ls, tKey))

\* the step just taken was a ledger mutation of the Transactions screen
MutatedByTxnScreen ==
    last.op \in {"onAdd", "performDelete", "onUndo"} /\ last.ok /\ last.txn # None

\* the step just taken was a move made on the Budget screen
MutatedByBudgetScreen ==
    last.op = "confirmMove" /\ last.ok /\ last.cnt > 0

RECURSIVE SpentOfType(_, _)
SpentOfType(cats, type) ==
    IF cats = <<>> THEN 0
    ELSE (IF Head(cats).type = type
          THEN getSpentByCategory(budget, ls, Head(cats).id) ELSE 0)
         + SpentOfType(Tail(cats), type)

\* a transaction of the persisted ledger whose category is not in the budget
Dangling == {i \in DOMAIN StoredLedger : StoredLedger[i].categoryId \notin CatIds(budget[1])}

\* C10: the totals count a transaction by the type of its category, so that
\* incomeReceived is the spend of the income categories and expenseSpent
\* the spend of the expense categories; a transaction whose category is not
\* in the budget is in neither
C10_Totals ==
    budget # None =>
        /\ getTotals(budget, ls).incomeReceived = SpentOfType(budget[1].categories, "income")
        /\ getTotals(budget, ls).expenseSpent = SpentOfType(budget[1].categories, "expense")

\* the totals of a ledger with a dangling transaction, all of whose other
\* transactions are of income or expense categories
DanglingCounted ==
    /\ budget # None
    /\ Dangling # {}
    /\ \A i \in DOMAIN StoredLedger \ Dangling :
            CatById(budget[1], StoredLedger[i].categoryId).type \in {"income", "expense"}
    /\ getTotals(budget, ls).expenseSpent > SpentOfType(budget[1].categories, "expense")

(***************************************************************************)
(* Planned amounts                                                         *)
(***************************************************************************)
\* the categories with the planned of the category of that id replaced
WithPlanned(cats, id, value) ==
    [i \in DOMAIN cats |->
        IF cats[i].id = id
        THEN [id |-> cats[i].id, name |-> cats[i].name, type |-> cats[i].type,
              group |-> cats[i].group, planned |-> value, spent |-> cats[i].spent]
        ELSE cats[i]]

\* every category's planned is a non-negative number
PlannedNonNegative(bud) ==
    bud # None =>
        \A i \in DOMAIN bud[1].categories :
            LET p == bud[1].categories[i].planned
            IN  ~isNaN(p) /\ ~isNull(p) /\ p.val >= 0

\* C11: setPlanned with a value that is negative or NaN leaves the budget
\* unchanged, with any other value it replaces only the planned of that
\* category; so that every planned is non-negative in every state
C11_SetPlanned ==
    [][/\ SetPlanned =>
            IF last'.nan \/ last'.sum < 0
            THEN budget' = budget
            ELSE /\ budget'[1].month = budget[1].month
                 /\ budget'[1].categories =
                        WithPlanned(budget[1].categories, last'.src, Num(last'.sum))
        /\ PlannedNonNegative(budget')]_vars

\* what saveEdit and the store do keep of it: a number replaces the planned
\* of that category only, and a text that is not a number counts as 0
SetPlannedFrame ==
    [][SetPlanned =>
        /\ budget'[1].month = budget[1].month
        /\ budget'[1].categories =
                WithPlanned(budget[1].categories, last'.src,
                            Num(IF last'.nan THEN 0 ELSE last'.sum))]_vars

(***************************************************************************)
(* Rejected operations                                                     *)
(***************************************************************************)
\* the step leaves the ledger (in memory and as persisted), the budget with
\* its spent values, and the listeners of "txns-updated" alone
NothingDone ==
    /\ ls' = ls
    /\ txns' = txns
    /\ tQueue' = tQueue
    /\ timers' = timers
    /\ budget' = budget

\* C12: an add is a no-op (ledger unchanged, nothing persisted, nobody
\* notified, no spent changed) when the amount is not a positive number, when
\* the category id is empty, or when it is not the id of a category of the
\* budget at that time
C12_AddRejects ==
    [][OnAdd =>
        ((\/ last'.nan
          \/ last'.sum <= 0
          \/ catId = NoCat
          \/ catId \notin CatIds(budget[1])) => NothingDone)]_vars

\* what onAdd does reject: an amount that is not a positive number
AddRejectsAmount ==
    [][OnAdd => ((last'.nan \/ last'.sum <= 0 \/ catId = NoCat) => NothingDone)]_vars

\* an add has put a transaction of a category that the budget does not have
\* into the ledger
AddedToMissingCategory ==
    /\ last.op = "onAdd" /\ last.ok
    /\ last.src \notin CatIds(budget[1])
    /\ last.txn[1] \in Range(txns) \/ last.txn[1] \in Range(StoredLedger)

\* C13: a move is a no-op (ledger and every spent unchanged, zero moved
\* count and sum) when source and target are the same or when one of them is
\* not the id of a category of the budget at that time
C13_MoveRejects ==
    [][ConfirmMove =>
        ((\/ moveId = moveTargetId
          \/ moveId \notin CatIds(budget[1])
          \/ moveTargetId \notin CatIds(budget[1]))
            => /\ NothingDone
               /\ last'.cnt = 0
               /\ last'.sum = 0)]_vars

(***************************************************************************)
(* Removal of a transaction                                                *)
(***************************************************************************)
\* the list the Transactions screen holds once React has applied the updates
\* in its queue
Settled(queue, state, store) == processQueue(queue, state, store).state

\* list without its k-th entry
DropAt(list, k) == [i \in 1..(Len(list) - 1) |-> IF i < k THEN list[i] ELSE list[i + 1]]

\* C14: a remove of an id that is in the ledger takes exactly that one
\* transaction out of it and hands it back for the undo; a remove of an id
\* that is not in the ledger changes nothing and creates no undo handle
C14_Remove ==
    [][PerformDelete =>
        LET t == last'.txn[1]
            before == txns
            after == Settled(tQueue', txns', ls')
        IN IF \E k \in DOMAIN before : before[k].id = t.id
           THEN /\ \E k \in DOMAIN before : before[k] = t /\ after = DropAt(before, k)
                /\ lastDeleted' = Some(t)
           ELSE /\ NothingDone
                /\ lastDeleted' = lastDeleted
                /\ undoVisible' = undoVisible]_vars

\* the list of the Transactions screen is the persisted ledger whenever the
\* user can act on it
ListIsStored == TxnReady => txns = LoadTxns(ls, tKey)

(***************************************************************************)
(* Sessions in which localStorage fails                                    *)
(***************************************************************************)
\* the planned amounts and the ids of the categories, in order
PlanOf(bud) ==
    IF bud = None THEN <<>>
    ELSE [i \in DOMAIN bud[1].categories |->
            <<bud[1].categories[i].id, bud[1].categories[i].planned>>]

\* the list on screen shows the last mutation of the add, remove, undo
\* sequence: the transaction is in it after the add and after the undo, and
\* not in it after the remove
LedgerShows(c, list) ==
    /\ c.stage \in {1, 3} => c.t[1] \in Range(list)
    /\ c.stage = 2 => c.t[1] \notin Range(list)

\* C15: in a session in which localStorage fails no operation raises, and a
\* mutation whose write failed takes effect in memory and stays in effect:
\* setPlanned and addCategory change the budget in memory and no later
\* render, effect or navigation takes that back (the reconcile timers, which
\* restore the budget they captured, aside); a ledger add, remove or undo is
\* in the list of the Transactions screen once it has rendered, until the
\* next mutation
C15_DegradesToMemory ==
    [][fault # "none" =>
        /\ SetPlanned =>
                CatById(budget'[1], last'.src).planned = Num(IF last'.nan THEN 0 ELSE last'.sum)
        /\ AddCategory => last'.src \in CatIds(budget'[1])
        /\ (nOps' = nOps /\ budget # None /\ ~ReconcileTimer) => PlanOf(budget') = PlanOf(budget)
        /\ (tMounted' /\ tQueue' = <<>>) => LedgerShows(chain', txns')]_vars

\* what does stay in memory when localStorage fails: the budget
BudgetDegradesToMemory ==
    [][fault # "none" =>
        /\ SetPlanned =>
                CatById(budget'[1], last'.src).planned = Num(IF last'.nan THEN 0 ELSE last'.sum)
        /\ AddCategory => last'.src \in CatIds(budget'[1])
        /\ (nOps' = nOps /\ budget # None /\ ~ReconcileTimer) => PlanOf(budget') = PlanOf(budget)]_vars

\* and the ledger when every access throws: nothing is read back
LedgerDegradesWhenDenied ==
    [][(fault = "denied" /\ tMounted' /\ tQueue' = <<>>) => LedgerShows(chain', txns')]_vars

(***************************************************************************)
(* Identifiers                                                             *)
(***************************************************************************)
\* no two entries of the sequence have the same id
DistinctIds(seq) ==
    \A i, j \in DOMAIN seq : i # j => seq[i].id # seq[j].id

\* C16: in every reachable state the categories of the budget, in memory
\* and as persisted, have pairwise distinct ids
C16_CategoryIdsUnique ==
    /\ budget # None => DistinctIds(budget[1].categories)
    /\ ls[BudgetKey] # None => DistinctIds(ls[BudgetKey][1].categories)

\* what keeps the ids apart: Date.now() having moved on between two adds
CategoryIdsUniqueIfClockMoved ==
    [][AddCategory =>
        (last'.src \in CatIds(budget[1]) <=>
            \E c \in Range(budget[1].categories) : c.id = <<"t", now>>)]_vars

\* C17: in every reachable state the transactions of the ledger, on screen
\* and as persisted, have pairwise distinct ids
C17_TxnIdsUnique ==
    /\ DistinctIds(txns)
    /\ \A k \in Keys \ {BudgetKey} : DistinctIds(LoadTxns(ls, k))

\* the same transaction twice in the ledger after a remove and its undo,
\* without any add
UndoneTwice ==
    /\ last.op = "onUndo" /\ last.ok
    /\ nOps = 2
    /\ Cardinality({i \in DOMAIN StoredLedger : StoredLedger[i] = last.txn[1]}) = 2

(***************************************************************************)
(* Adding a category                                                       *)
(***************************************************************************)
\* out is raw without the blanks at its two ends
IsTrimmed(raw, out) ==
    \/ /\ out = <<>>
       /\ \A i \in DOMAIN raw : raw[i] = " "
    \/ \E i, j \in DOMAIN raw :
        /\ i <= j
        /\ out = [k \in 1..(j - i + 1) |-> raw[i + k - 1]]
        /\ raw[i] # " " /\ raw[j] # " "
        /\ \A k \in DOMAIN raw : (k < i \/ k > j) => raw[k] = " "

BlankNameRefused ==
    /\ last.op = "addCategory" /\ ~last.ok
    /\ last.name = <<" ">>
    /\ nOps = 2
    /\ Len(budget[1].categories) = 10

(***************************************************************************)
(* Order and eviction on add                                               *)
(***************************************************************************)
\* the list that the first update of the queue yields from `state`
FirstUpdate(queue, state, store) == Settled(<<Head(queue)>>, state, store)

HalfUp(n, d) == (2 * n + d) \div (2 * d)

\* pct % of pctOf % of what income leaves after the fixed costs
Share(remainder, pctOf, pct) == HalfUp(remainder * pctOf * pct, 100 * 100)

\* the five inputs are non-negative numbers (an empty field being 0)
NonNegativeNumeric(form) ==
    \A i \in DOMAIN form : ~isNaN(NumberOr0(form[i])) /\ NumberOr0(form[i]).val >= 0

Allocation(form) ==
    LET income == NumberOr0(form[1]).val + NumberOr0(form[2]).val
        fixed == NumberOr0(form[3]).val + NumberOr0(form[4]).val + NumberOr0(form[5]).val
        remainder == Max(income - fixed, 0)
    IN  <<NumberOr0(form[3]).val + NumberOr0(form[4]).val,
          NumberOr0(form[5]).val,
          Share(remainder, 50, 55),
          Share(remainder, 50, 25),
          Share(remainder, 50, 12),
          Share(remainder, 50, 8),
          Share(remainder, 30, 70),
          Share(remainder, 30, 30),
          Share(remainder, 20, 100)>>

NamesOf(b) == [i \in DOMAIN b.categories |-> b.categories[i].name]
PlannedOf(b) == [i \in DOMAIN b.categories |-> b.categories[i].planned]
Nums(seq) == [i \in DOMAIN seq |-> Num(seq[i])]

\* C20: for non-negative numeric inputs the sample button leaves the nine
\* categories Housing .. Savings/Goals in that order, planned rent+mortgage,
\* utilities, 55/25/12/8 % of needs, 70/30 % of wants and savings, each
\* rounded to the nearest unit with a half going up, where needs, wants and
\* savings are 50/30/20 % of max(income - fixed, 0)
C20_Allocator ==
    (last.op = "sample" /\ NonNegativeNumeric(last.form)) =>
        /\ budget # None
        /\ NamesOf(budget[1]) = [i \in 1..Len(OnboardingNames) |-> <<OnboardingNames[i]>>]
        /\ PlannedOf(budget[1]) = Nums(Allocation(last.form))

\* the worked example: 5000 / 0 / 1500 / 0 / 200
AllocatorExample ==
    last.op = "sample" /\ last.form = <<<<5000>>, NoText, <<1500>>, NoText, <<200>>>> =>
        PlannedOf(budget[1]) = Nums(<<1500, 200, 908, 413, 198, 132, 693, 297, 660>>)

\* the names, their order, spent 0 and the two fixed-cost lines are as
\* stated, and no share is more than one unit away from the stated one
AllocatorWithinOne ==
    (last.op = "sample" /\ NonNegativeNumeric(last.form)) =>
        /\ NamesOf(budget[1]) = [i \in 1..Len(OnboardingNames) |-> <<OnboardingNames[i]>>]
        /\ \A i \in DOMAIN budget[1].categories :
              /\ budget[1].categories[i].spent = 0
              /\ ~isNaN(PlannedOf(budget[1])[i])
              /\ PlannedOf(budget[1])[i].val - Allocation(last.form)[i] \in {-1, 0}
              /\ i \in {1, 2} => PlannedOf(budget[1])[i].val = Allocation(last.form)[i]

\* the example has been submitted
AllocatorExampleSeen ==
    last.op = "sample" /\ last.form = <<<<5000>>, NoText, <<1500>>, NoText, <<200>>>>


(***************************************************************************)
(* C21: the persisted budget                                               *)
(***************************************************************************)
\* load(): loadJSON("budget") of the store
Loaded(store) == IF store[BudgetKey] = None THEN None ELSE Some(parse(store[BudgetKey][1]))

\* the step saved a budget
Saves == ls'[BudgetKey] # ls[BudgetKey] /\ ls'[BudgetKey] # None

\* C21: a load() after a save(budget) yields a budget equal to the one saved,
\* month, categories, order and every field; with nothing persisted load()
\* yields no budget
C21_RoundTrip ==
    [][/\ Saves => Loaded(ls') = budget'
       /\ (LoadBudget /\ ls[BudgetKey] = None) => budget' = None]_vars

\* every planned of the budget is a number
PlannedAreNumbers(bud) ==
    \A i \in DOMAIN bud[1].categories :
        ~isNaN(bud[1].categories[i].planned) /\ ~isNull(bud[1].categories[i].planned)

\* what does hold: a saved budget whose planned are numbers is loaded as
\* it was saved, and a load finds no budget where none is persisted
RoundTripOfNumbers ==
    [][/\ (Saves /\ PlannedAreNumbers(budget')) => Loaded(ls') = budget'
       /\ (LoadBudget /\ ls[BudgetKey] = None) => budget' = None
       /\ (LoadBudget /\ ls[BudgetKey] # None) => budget' = Loaded(ls)]_vars


(***************************************************************************)
(* C30: the inputs of the onboarding allocator                             *)
(***************************************************************************)
\* the input with what is blank or not a number replaced by nothing
Cleaned(form) ==
    [i \in DOMAIN form |-> IF isNaN(NumberOr0(form[i])) THEN NoText ELSE form[i]]

\* C30: an input of the sample flow that is blank or not a number counts as
\* 0, so that whatever is typed into the five fields each of the nine
\* planned is a non-negative number, and every spent is 0
C30_SampleInputs ==
    last.op = "sample" =>
        /\ PlannedNonNegative(budget)
        /\ \A i \in DOMAIN budget[1].categories : budget[1].categories[i].spent = 0
        /\ budget[1] = sampleBudget(Cleaned(last.form)[1], Cleaned(last.form)[2],
                                    Cleaned(last.form)[3], Cleaned(last.form)[4],
                                    Cleaned(last.form)[5])

\* what does hold: spent is 0 whatever is typed, an empty field counts as 0,
\* and non-negative numbers give non-negative planned
SampleOfNumbers ==
    last.op = "sample" =>
        /\ \A i \in DOMAIN budget[1].categories : budget[1].categories[i].spent = 0
        /\ NonNegativeNumeric(last.form) => PlannedNonNegative(budget)
        /\ NumberOr0(NoText) = Num(0)

\* a text that is not a number was typed into Primary income: every planned
\* that depends on the income is NaN
SampleOfNaN ==
    /\ last.op = "sample" /\ last.form[1] = <<1, 500>>
    /\ \A i \in 3..9 : isNaN(budget[1].categories[i].planned)

\* a negative rent was typed: Housing is planned below 0
SampleOfNegative ==
    /\ last.op = "sample" /\ last.form[3] = <<-100>> /\ last.form[4] = NoText
    /\ budget[1].categories[1].planned = Num(-100)


(***************************************************************************)
(* C22: when reconciliation runs                                           *)
(***************************************************************************)
\* a reconciliation run is due: the effect, or a timer set by a notification
ReconcilePending == EffectPending \/ timers # {}

\* C22: reconciliation runs on a mount or focus, on a change notification or
\* after a local mutation only, a bounded number of times for each, and
\* once these have stopped the system comes to rest: no reconciliation run
\* and no write of the budget is pending any more
C22_Quiescence == <>[]~ReconcilePending

\* what does hold: the timers set by the notifications all fire, and a run
\* of the effect right after a reconciliation writes the budget it found
TimersDrain == <>[](timers = {})

RerunChangesNothing == [][~(JustReconciled /\ BudgetEffect)]_vars


(***************************************************************************)
(* C23: updates of the ledger by the two screens                           *)
(***************************************************************************)
\* the transactions the updaters of the queue add to the list they run on
PutByUpdaters ==
    {tQueue[k].txn[1] : k \in {n \in DOMAIN tQueue : tQueue[n].kind # "set"}}

\* a transaction of the new ledger is one of the old ledger as it was there,
\* category included, unless an updater of the queue put it there or the
\* old ledger had none of that id
SameCategories(old, new) ==
    \A j \in DOMAIN new :
        \/ new[j] \in Range(old)
        \/ new[j] \in PutByUpdaters
        \/ \A i \in DOMAIN old : old[i].id # new[j].id

\* a write of the Transactions screen that is no mutation of the user: its
\* mount, or a render with its persist effect
ObserverWrite == MountT \/ TRender

\* C23: no update of the ledger is lost between the observers: a
\* transaction that was added, and neither removed nor evicted nor cleared
\* by a reset since, is in the persisted ledger once the observer has
\* rendered, and the categories given by a move are not taken back by a
\* later write of another observer
C23_NoLostUpdate ==
    [][/\ (chain'.stage = 1 /\ tQueue' = <<>> /\ budget' # None) =>
                chain'.t[1] \in Range(StoredLedger')
       /\ ObserverWrite => SameCategories(StoredLedger, StoredLedger')]_vars

\* what does hold: the writes of the Transactions screen keep the category
\* of every transaction they keep, those given by a move included
MoveNotReverted == [][ObserverWrite => SameCategories(StoredLedger, StoredLedger')]_vars


(***************************************************************************)
(* C24: after a reset of the month                                         *)
(***************************************************************************)
\* the step puts t into the persisted ledger of the month
Reappears(t) == t \in Range(StoredLedger') /\ t \notin Range(StoredLedger)

\* the step is an add of a transaction equal to t, or the render that runs
\* the updater of such an add
AddedAnew(t) ==
    \/ OnAdd /\ last'.ok /\ last'.txn = Some(t)
    \/ TRender /\ \E k \in DOMAIN tQueue : tQueue[k].kind = "add" /\ tQueue[k].txn = Some(t)

\* C24: the transactions that were in the ledger when resetMonth ran are
\* never in the persisted ledger of the month again: no reload, no write
\* of the persist effect, no add, remove or undo of an observer, one that
\* still holds the list from before the reset included, writes one back
C24_ResetIsFinal ==
    [][\A t \in cleared : Reappears(t) => AddedAnew(t)]_vars

\* what does hold: a cleared transaction comes back by an add of an equal
\* one or by an undo only, never by a reload or by the persist effect
OnlyUndoBringsBack ==
    [][\A t \in cleared :
        Reappears(t) =>
            \/ AddedAnew(t)
            \/ OnUndo /\ last'.txn = Some(t)
            \/ TRender /\ \E k \in DOMAIN tQueue :
                    tQueue[k].kind = "undo" /\ tQueue[k].txn = Some(t)]_vars

\* the Transactions screen, still holding the list a reset has cleared, is
\* in front again and is about to reload
StaleAfterReset ==
    /\ cleared # {} /\ StoredLedger = <<>>
    /\ focus = "transactions" /\ tMounted
    /\ txns # <<>> /\ Range(txns) \subseteq cleared

(***************************************************************************)
(* C25: what a reconciliation run leaves alone                             *)
(***************************************************************************)
\* the step is a run of reconcileFromStorage: that of the effect or that of
\* a "txns-updated" timer
ReconcileRun == BudgetEffect \/ ReconcileTimer

\* the budget but for the spent amounts: the month and the categories in
\* order with their id, name, type, group and planned
Frame(b) == resetSpent(b)

\* C25: a run of reconcileFromStorage changes the spent amounts only: the
\* month, the categories and their order, and the id, name and planned of
\* every category are after the run what they were in the budget of the
\* moment the run executes, so that an edit made before a delayed run fires
\* is not reverted by it
C25_ReconcileFrame ==
    [][(ReconcileRun /\ budget # None) =>
            budget' # None /\ Frame(budget'[1]) = Frame(budget[1])]_vars

\* what does hold: the run of the effect changes the spent amounts only, and
\* a delayed run does so relative to the budget it captured
ReconcileFrameOfCaptured ==
    [][/\ (BudgetEffect /\ budget # None) => Frame(budget'[1]) = Frame(budget[1])
       /\ (ReconcileTimer /\ Readable) =>
            \E cb \in timers : Frame(budget'[1]) = Frame(cb)]_vars

\* a delayed run is pending with a budget whose planned amounts or
\* categories have been edited since
StaleTimer ==
    budget # None /\ \E cb \in timers : Frame(cb) # Frame(budget[1])

(***************************************************************************)
(* C26: loading the ledger                                                 *)
(***************************************************************************)
\* the step mounts, focuses or reloads the Transactions screen: its first
\* render, a change of tab, or a render whose queued updates are all
\* setTxns(list) of a reload or of a mutation that has already been written
LoadsLedger ==
    \/ MountT
    \/ SwitchTab
    \/ TRender /\ \A k \in DOMAIN tQueue : tQueue[k].kind = "set"

\* C26: loading is read-only: mounting, focusing or reloading the
\* Transactions screen, the change of its storage key when the budget has
\* been loaded included, leaves the persisted ledger of the month as it is,
\* in every step
C26_LoadReadOnly ==
    [][LoadsLedger =>
            LoadTxns(ls', monthKey(Month)) = LoadTxns(ls, monthKey(Month))]_vars

\* what does hold: gaining the focus writes nothing, and a first render
\* queues the list it has read before its persist effect writes the empty one
FocusReadOnly ==
    [][/\ SwitchTab => ls' = ls
       /\ (MountT /\ Readable) =>
            tQueue'[Len(tQueue')].list = LoadTxns(ls, storageKeyOf(budget))]_vars

\* the persisted ledger is empty while the list read from it waits for the
\* next render
WipedByMount ==
    /\ tMounted /\ tQueue # <<>>
    /\ LoadTxns(ls, monthKey(Month)) = <<>>
    /\ tQueue[Len(tQueue)].kind = "set" /\ tQueue[Len(tQueue)].list # <<>>

(***************************************************************************)
(* C27, C28: the undo handle and its timer                                 *)
(***************************************************************************)
\* the undo handle the user has: the transaction the Undo button restores
Handle == IF UndoShown THEN lastDeleted ELSE None

C28_SingleHandle ==
    [][/\ Cardinality(undoTimer') <= 1
       /\ PerformDelete =>
            /\ Handle' = last'.txn
            /\ Cardinality(undoTimer') = 1
       /\ (OnUndo /\ lastDeleted # None) =>
            /\ FirstUpdate(tQueue', txns, ls) = undoNext(txns, lastDeleted[1])
            /\ lastDeleted' = None /\ Handle' = None /\ undoTimer' = {}
       /\ (OnUndo /\ lastDeleted = None) => UNCHANGED <<ls, txns, tQueue, lastDeleted>>]_vars

\* the second of the stored transactions was removed and put back by an
\* undo, and a second undo has done nothing
C28_Witness ==
    /\ last.op = "onUndo" /\ ~last.ok
    /\ nOps = 3 /\ cleared = {}
    /\ StoredLedger # Ledger(StoredTxns)
    /\ Len(StoredLedger) = StoredTxns
    /\ Range(StoredLedger) = Range(Ledger(StoredTxns))

(***************************************************************************)
(* C29: the route taken at startup                                         *)
(***************************************************************************)
\* C29: startup leads to onboarding only when no budget is persisted: with
\* a budget persisted the onboarding screen is never in front, and once the
\* load has run and the index route is left the budget screen is up with
\* the persisted budget loaded
C29_StartupRoute ==
    /\ focus = "onboarding" => ls[BudgetKey] = None
    /\ (loaded /\ focus # "index" /\ ls[BudgetKey] # None) =>
            /\ focus \in {"budget", "transactions"}
            /\ bMounted
            /\ budget # None

\* what does hold: an Index that renders after the load has run routes by
\* the persisted budget, and the load itself sets the persisted budget
RouteAfterLoad ==
    [][/\ (IndexRedirect /\ loaded) =>
            (focus' = "onboarding") = (ls[BudgetKey] = None)
       /\ LoadBudget => budget' = Loaded(ls)]_vars

\* the onboarding screen in front of a user whose budget has been loaded
OnboardingWithBudget ==
    focus = "onboarding" /\ loaded /\ budget # None /\ Loaded(ls) = budget

=============================================================================
